---------------------------- MODULE Spec2Model ----------------------------
(***************************************************************************)
(* Response body decoding of hurl's runner                                 *)
(* (src/src/runner/content_decoding.rs).                                   *)
(*                                                                         *)
(* A response (ordered headers, body bytes) is classified by its           *)
(* Content-Encoding header and its body is handed to the matching          *)
(* decompressor.  Strings are sequences of code points and bodies are      *)
(* sequences of bytes, so that case folding and byte equality are          *)
(* computed, not assumed.  The three decompressors are external crates     *)
(* (brotli, libflate); what a decoder delivers for a body is chosen by     *)
(* the environment when the decoder is constructed, within what the        *)
(* repository's own tests fix for their vectors.                           *)
(***************************************************************************)
EXTENDS Integers, Sequences, FiniteSets

VARIABLES headers, body, pc, encoding, decoder, buf, result

vars == <<headers, body, pc, encoding, decoder, buf, result>>

---------------------------------------------------------------------------
(* Bounds of the model *)

\* longest header list explored
MaxHeaders == 2
\* bytes by which the largest decompressed payload exceeds the brotli buffer
Excess == 1
\* size of the first chunk of a decoder that delivers its payload in two reads
ShortRead == 5

\* a brotli buffer of twice the size
BrotliBufSize_Doubled == 4096 * 2

\* the buffer handed to the single brotli read: [0u8; 4096]
BrotliBufSize == 4096
\* the input buffer of the brotli reader: Decompressor::new(data, 4096)
BrotliInputBufSize == 4096

---------------------------------------------------------------------------
(* String literals, as sequences of code points *)

\* "content-encoding"
Str_content_encoding == <<99, 111, 110, 116, 101, 110, 116, 45, 101, 110, 99, 111, 100, 105, 110, 103>>
\* "br"
Str_br == <<98, 114>>
\* "gzip"
Str_gzip == <<103, 122, 105, 112>>
\* "deflate"
Str_deflate == <<100, 101, 102, 108, 97, 116, 101>>
\* "identity"
Str_identity == <<105, 100, 101, 110, 116, 105, 116, 121>>
\* "brotli"
Str_brotli == <<98, 114, 111, 116, 108, 105>>
\* "zlib"
Str_zlib == <<122, 108, 105, 98>>

\* Header names and values the responses are built from.
\* "Content-Encoding"
Name_Canonical == <<67, 111, 110, 116, 101, 110, 116, 45, 69, 110, 99, 111, 100, 105, 110, 103>>
\* "CONTENT-ENCODING"
Name_Upper == <<67, 79, 78, 84, 69, 78, 84, 45, 69, 78, 67, 79, 68, 73, 78, 71>>
\* "Content-Type"
Name_ContentType == <<67, 111, 110, 116, 101, 110, 116, 45, 84, 121, 112, 101>>
\* "BR"
Val_BR == <<66, 82>>
\* "xx"
Val_xx == <<120, 120>>

EncodingNames == {Name_Canonical, Name_Upper}
OtherNames == {Name_ContentType}
HeaderValues == {Str_br, Str_gzip, Str_deflate, Str_identity, Val_BR, Val_xx}

\* http::Header { name, value }
Header(n, v) == [name |-> n, value |-> v]

HeaderSet ==
    {Header(n, v) : n \in EncodingNames, v \in HeaderValues}
        \cup {Header(n, Str_gzip) : n \in OtherNames}

HeaderLists == UNION {[1..k -> HeaderSet] : k \in 0..MaxHeaders}

---------------------------------------------------------------------------
(* Bodies: the vectors of the repository's tests *)

\* b"Hello World!"
HelloWorld == <<72, 101, 108, 108, 111, 32, 87, 111, 114, 108, 100, 33>>
\* brotli stream of test_uncompress_brotli
BrotliHello == <<33, 44, 0, 4, 72, 101, 108, 108, 111, 32, 87, 111, 114, 108, 100, 33>>
\* gzip stream of test_uncompress_gzip
GzipHello == <<31, 139, 8, 8, 167, 82, 133, 95, 0, 3, 100, 97, 116, 97, 46, 116, 120, 116, 0, 243, 72, 205, 201, 201, 87, 8, 207, 47, 202, 73, 81, 4, 0, 163, 28, 41, 28, 12, 0, 0, 0>>
\* zlib stream of test_uncompress_zlib
ZlibHello == <<120, 156, 243, 72, 205, 201, 201, 87, 8, 207, 47, 202, 73, 81, 4, 0, 28, 73, 4, 62>>
\* the one byte of test_uncompress_error
BadByte == <<33>>

Bodies == {<<>>, BadByte, HelloWorld, BrotliHello, GzipHello, ZlibHello}

---------------------------------------------------------------------------
(* Result<T, RunnerError>, Option<T> *)

Ok(v) == [tag |-> "Ok", val |-> v]
Err(e) == [tag |-> "Err", err |-> e]
Some(x) == <<x>>
None == <<>>

UnsupportedContentEncoding(v) == [kind |-> "UnsupportedContentEncoding", msg |-> v]
CouldNotUncompressResponse(t) == [kind |-> "CouldNotUncompressResponse", msg |-> t]

\* the value of a local that has not been assigned yet
Pending == [tag |-> "Pending"]

Min(a, b) == IF a <= b THEN a ELSE b

---------------------------------------------------------------------------
(* Response::content_encoding *)

\* u8::to_ascii_lowercase on one code point: only 'A'..'Z' change
LowerChar(c) == IF c >= 65 /\ c <= 90 THEN c + 32 ELSE c

\* the name compared as written, without folding its case
to_ascii_lowercase_Unfolded(s) == s

\* str::to_ascii_lowercase
to_ascii_lowercase(s) == [i \in 1..Len(s) |-> LowerChar(s[i])]

\* header.name.as_str().to_ascii_lowercase() == "content-encoding"
IsContentEncoding(name) == to_ascii_lowercase(name) = Str_content_encoding

\* the match with "deflate" mapped to the gzip encoding
MatchValue_DeflateAsGzip(v) ==
    CASE v = Str_br       -> Ok(Some("Brotli"))
      [] v = Str_gzip     -> Ok(Some("Gzip"))
      [] v = Str_deflate  -> Ok(Some("Gzip"))
      [] v = Str_identity -> Ok(Some("Identity"))
      [] OTHER            -> Err(UnsupportedContentEncoding(v))

\* the match with the error carrying the value folded to lower case
MatchValue_FoldedMessage(v) ==
    CASE v = Str_br       -> Ok(Some("Brotli"))
      [] v = Str_gzip     -> Ok(Some("Gzip"))
      [] v = Str_deflate  -> Ok(Some("Deflate"))
      [] v = Str_identity -> Ok(Some("Identity"))
      [] OTHER            -> Err(UnsupportedContentEncoding(
                                    [i \in 1..Len(v) |-> LowerChar(v[i])]))

\* match header.value.as_str() { "br" => ..., v => Err(..) }
MatchValue(v) ==
    CASE v = Str_br       -> Ok(Some("Brotli"))
      [] v = Str_gzip     -> Ok(Some("Gzip"))
      [] v = Str_deflate  -> Ok(Some("Deflate"))
      [] v = Str_identity -> Ok(Some("Identity"))
      [] OTHER            -> Err(UnsupportedContentEncoding(v))

\* the for loop over the headers from index i on, returning at the first match
RECURSIVE ScanHeaders(_, _)
ScanHeaders(hs, i) ==
    IF i > Len(hs) THEN Ok(None)
    ELSE IF IsContentEncoding(hs[i].name) THEN MatchValue(hs[i].value)
    ELSE ScanHeaders(hs, i + 1)

\* the scan keeping the last matching header instead of returning at the first
RECURSIVE ScanHeadersBack(_, _)
ScanHeadersBack(hs, i) ==
    IF i < 1 THEN Ok(None)
    ELSE IF IsContentEncoding(hs[i].name) THEN MatchValue(hs[i].value)
    ELSE ScanHeadersBack(hs, i - 1)

content_encoding_LastMatch(hs) == ScanHeadersBack(hs, Len(hs))

content_encoding(hs) == ScanHeaders(hs, 1)

---------------------------------------------------------------------------
(* The decoders (external crates), as the readers uncompress_* drive *)

PayloadNames == {"empty", "hello", "full", "over"}

\* a payload that fills the brotli buffer exactly, and one that exceeds it
FullPayload == [i \in 1..BrotliBufSize |-> i % 256]
OverPayload == [i \in 1..(BrotliBufSize + Excess) |-> i % 256]

\* the bytes a payload name stands for
PayloadBytes(p) ==
    CASE p = "empty" -> <<>>
      [] p = "hello" -> HelloWorld
      [] p = "full"  -> FullPayload
      [] p = "over"  -> OverPayload

\* the ways a decoder may cut n bytes into successive reads
CutsOf(n) ==
    IF n = 0 THEN {<<>>}
    ELSE {<<n>>} \cup (IF ShortRead < n THEN {<<ShortRead, n>>} ELSE {})

\* What a decoder does with a body: whether construction succeeds, the bytes
\* it can deliver, the positions at which its reads stop, and whether the
\* stream then ends (Ok(0)) or fails (Err).
Streams ==
    {[ctor |-> TRUE, payload |-> p, cuts |-> c, end |-> e] :
        p \in PayloadNames, c \in UNION {CutsOf(Len(PayloadBytes(q))) : q \in PayloadNames},
        e \in {"eof", "err"}}

WellFormed(s) == s.cuts \in CutsOf(Len(PayloadBytes(s.payload)))

CtorFailure == [ctor |-> FALSE, payload |-> "empty", cuts |-> <<>>, end |-> "err"]

Codecs == {"brotli", "gzip", "zlib"}

\* What the tests of the repository fix about the decoders on their vectors;
\* no decoder delivers output for an empty input.
Consistent(kind, b, s) ==
    /\ (kind = "brotli" /\ b = BrotliHello) =>
            s.payload = "hello" /\ s.cuts = <<Len(HelloWorld)>>
    /\ (kind = "gzip" /\ b = GzipHello) =>
            s.ctor /\ s.payload = "hello" /\ s.end = "eof"
    /\ (kind = "zlib" /\ b = ZlibHello) =>
            s.ctor /\ s.payload = "hello" /\ s.end = "eof"
    /\ (kind = "brotli" /\ b = BadByte) => s.payload = "empty" /\ s.end = "err"
    /\ (kind = "gzip" /\ b = BadByte) => ~s.ctor \/ s.end = "err"
    /\ b = <<>> => s.payload = "empty" /\ (~s.ctor \/ s.end = "err")

\* the streams decoder `kind` may show on body b.  brotli::Decompressor::new
\* returns a reader, not a Result; a body that fits the reader's input buffer
\* is taken in at once, so that its first read stops only at a full output
\* buffer or where the stream ends or breaks.
StreamsFor(kind, b) ==
    {s \in {t \in Streams : WellFormed(t)} \cup {CtorFailure} :
        /\ Consistent(kind, b, s)
        /\ kind = "brotli" => s.ctor
        /\ (kind = "brotli" /\ Len(b) <= BrotliInputBufSize) => Len(s.cuts) <= 1}

NoDecoder == [kind |-> "none", stream |-> CtorFailure, pos |-> 0]

\* the next position at which a read of the decoder stops
NextCut(s, pos) ==
    LET later == {s.cuts[i] : i \in {j \in 1..Len(s.cuts) : s.cuts[j] > pos}}
    IN  CHOOSE c \in later : \A d \in later : c <= d

\* Read::read on the decoder at position pos into a buffer of cap bytes
\* (cap = -1: no limit): Ok(n) or Err
Read(s, pos, cap) ==
    LET data == PayloadBytes(s.payload)
    IN  IF pos < Len(data)
        THEN LET n == NextCut(s, pos) - pos
             IN  Ok(IF cap >= 0 THEN Min(cap, n) ELSE n)
        ELSE IF s.end = "eof" THEN Ok(0) ELSE Err("io")

---------------------------------------------------------------------------
(* Response::uncompress_body *)

\* the match with Deflate handed to the gzip routine
Routine_DeflateAsGzip(e) ==
    CASE e = Some("Identity") -> "clone"
      [] e = Some("Gzip")     -> "uncompress_gzip"
      [] e = Some("Deflate")  -> "uncompress_gzip"
      [] e = Some("Brotli")   -> "uncompress_brotli"
      [] e = None             -> "clone"

\* the function each arm of the match on the encoding evaluates
Routine(e) ==
    CASE e = Some("Identity") -> "clone"
      [] e = Some("Gzip")     -> "uncompress_gzip"
      [] e = Some("Deflate")  -> "uncompress_zlib"
      [] e = Some("Brotli")   -> "uncompress_brotli"
      [] e = None             -> "clone"

\* the zlib routine's error named after the encoding instead of the codec
ZlibTag_Deflate == Str_deflate

\* the algorithm names the errors of the three routines carry
BrotliTag == Str_brotli
GzipTag == Str_gzip
ZlibTag == Str_zlib

Init ==
    /\ headers \in HeaderLists
    /\ body \in Bodies
    /\ pc = "uncompress_body"
    /\ encoding = Pending
    /\ decoder = NoDecoder
    /\ buf = <<>>
    /\ result = Pending

\* let encoding = self.content_encoding()?;  -- the error returns at once
PropagateError ==
    /\ pc = "uncompress_body"
    /\ content_encoding(headers).tag = "Err"
    /\ encoding' = content_encoding(headers)
    /\ result' = Err(content_encoding(headers).err)
    /\ pc' = "done"
    /\ UNCHANGED <<headers, body, decoder, buf>>

\* the passthrough arms returning a fresh, empty vector
CloneBody_EmptyVec ==
    /\ pc = "uncompress_body"
    /\ content_encoding(headers).tag = "Ok"
    /\ content_encoding(headers).val \in {None, Some("Identity")}
    /\ encoding' = content_encoding(headers)
    /\ result' = Ok(<<>>)
    /\ pc' = "done"
    /\ UNCHANGED <<headers, body, decoder, buf>>

\* Some(Encoding::Identity) | None => Ok(self.body.clone())
CloneBody ==
    /\ pc = "uncompress_body"
    /\ content_encoding(headers).tag = "Ok"
    /\ Routine(content_encoding(headers).val) = "clone"
    /\ encoding' = content_encoding(headers)
    /\ result' = Ok(body)
    /\ pc' = "done"
    /\ UNCHANGED <<headers, body, decoder, buf>>

\* Some(Encoding::Gzip | Deflate | Brotli) => uncompress_*(&self.body[..])
CallCodec ==
    /\ pc = "uncompress_body"
    /\ content_encoding(headers).tag = "Ok"
    /\ Routine(content_encoding(headers).val) # "clone"
    /\ encoding' = content_encoding(headers)
    /\ pc' = Routine(content_encoding(headers).val)
    /\ UNCHANGED <<headers, body, decoder, buf, result>>

---------------------------------------------------------------------------
(* uncompress_brotli *)

\* brotli::Decompressor::new(data, 4096)
BrotliNew ==
    /\ pc = "uncompress_brotli"
    /\ \E s \in StreamsFor("brotli", body) :
            decoder' = [kind |-> "brotli", stream |-> s, pos |-> 0]
    /\ pc' = "brotli_read"
    /\ UNCHANGED <<headers, body, encoding, buf, result>>

\* the one reader.read(&mut buf[..]) and Ok(buf[..n].to_vec()); the local
\* buffer is gone when the function returns
BrotliRead ==
    /\ pc = "brotli_read"
    /\ LET r == Read(decoder.stream, decoder.pos, BrotliBufSize)
           data == PayloadBytes(decoder.stream.payload)
       IN  IF r.tag = "Err"
           THEN /\ result' = Err(CouldNotUncompressResponse(BrotliTag))
                /\ UNCHANGED decoder
           ELSE /\ decoder' = [decoder EXCEPT !.pos = @ + r.val]
                /\ result' = Ok(SubSeq(data, decoder.pos + 1, decoder.pos + r.val))
    /\ buf' = <<>>
    /\ pc' = "done"
    /\ UNCHANGED <<headers, body, encoding>>

---------------------------------------------------------------------------
(* uncompress_gzip, uncompress_zlib *)

\* libflate::{gzip,zlib}::Decoder::new(data), and the return on its Err
LibflateNew(kind, tag) ==
    /\ pc = "uncompress_" \o kind
    /\ \E s \in StreamsFor(kind, body) :
            /\ decoder' = [kind |-> kind, stream |-> s, pos |-> 0]
            /\ IF s.ctor
               THEN pc' = kind \o "_read_to_end" /\ UNCHANGED result
               ELSE pc' = "done" /\ result' = Err(CouldNotUncompressResponse(tag))
    /\ UNCHANGED <<headers, body, encoding, buf>>

\* the routine making one read, as uncompress_brotli does, not read_to_end
LibflateRead_Single(kind, tag) ==
    /\ pc = kind \o "_read_to_end"
    /\ LET r == Read(decoder.stream, decoder.pos, -1)
           data == PayloadBytes(decoder.stream.payload)
       IN  IF r.tag = "Err"
           THEN /\ result' = Err(CouldNotUncompressResponse(tag))
                /\ UNCHANGED decoder
           ELSE /\ decoder' = [decoder EXCEPT !.pos = @ + r.val]
                /\ result' = Ok(SubSeq(data, decoder.pos + 1, decoder.pos + r.val))
    /\ pc' = "done"
    /\ buf' = <<>>
    /\ UNCHANGED <<headers, body, encoding>>

\* one read of decoder.read_to_end(&mut buf), and the match on its end: buf
\* is moved into the result, or dropped with the error
LibflateRead(kind, tag) ==
    /\ pc = kind \o "_read_to_end"
    /\ LET r == Read(decoder.stream, decoder.pos, -1)
           data == PayloadBytes(decoder.stream.payload)
       IN  IF r.tag = "Err"
           THEN /\ result' = Err(CouldNotUncompressResponse(tag))
                /\ pc' = "done"
                /\ buf' = <<>>
                /\ UNCHANGED decoder
           ELSE IF r.val = 0
           THEN /\ result' = Ok(buf)
                /\ pc' = "done"
                /\ buf' = <<>>
                /\ UNCHANGED decoder
           ELSE /\ buf' = buf \o SubSeq(data, decoder.pos + 1, decoder.pos + r.val)
                /\ decoder' = [decoder EXCEPT !.pos = @ + r.val]
                /\ UNCHANGED <<pc, result>>
    /\ UNCHANGED <<headers, body, encoding>>

GzipNew == LibflateNew("gzip", GzipTag)
GzipReadToEnd == LibflateRead("gzip", GzipTag)
ZlibNew == LibflateNew("zlib", ZlibTag)
ZlibReadToEnd == LibflateRead("zlib", ZlibTag)

Next ==
    \/ PropagateError
    \/ CloneBody
    \/ CallCodec
    \/ BrotliNew
    \/ BrotliRead
    \/ GzipNew
    \/ GzipReadToEnd
    \/ ZlibNew
    \/ ZlibReadToEnd

Spec == Init /\ [][Next]_vars

---------------------------------------------------------------------------
(* Vocabulary of the properties, stated without the operators of the code *)

\* equality of two strings up to the case of their ASCII letters
UpperChar(c) == IF c >= 97 /\ c <= 122 THEN c - 32 ELSE c
EqIgnoreAsciiCase(a, b) ==
    /\ Len(a) = Len(b)
    /\ \A i \in 1..Len(a) : UpperChar(a[i]) = UpperChar(b[i])

NamedContentEncoding(h) == EqIgnoreAsciiCase(h.name, Str_content_encoding)

\* the positions of the headers named content-encoding, and the first of them
NamedIdx == {i \in 1..Len(headers) : NamedContentEncoding(headers[i])}
HasSelected == \E i \in 1..Len(headers) : NamedContentEncoding(headers[i])
SelectedIdx ==
    CHOOSE i \in 1..Len(headers) :
        /\ NamedContentEncoding(headers[i])
        /\ \A j \in 1..(i - 1) : ~NamedContentEncoding(headers[j])
SelectedValue == headers[SelectedIdx].value

Literals == {Str_br, Str_gzip, Str_deflate, Str_identity}

\* content_encoding has returned
Resolved == encoding.tag # "Pending"
Returned == pc = "done"

IsOk(r, v) == r.tag = "Ok" /\ r.val = v
IsErr(r, e) == r.tag = "Err" /\ r.err = e

\* the decoder uncompress_body has constructed, its stream and its bytes
Dispatched == decoder.kind # "none"
Stream == decoder.stream
Data == PayloadBytes(decoder.stream.payload)
IsPrefix(a, b) == Len(a) <= Len(b) /\ a = SubSeq(b, 1, Len(a))

---------------------------------------------------------------------------
(* Claims *)

\* C1: when the first header named content-encoding (in any case) has the
\* value "br", "gzip", "deflate" or "identity", content_encoding returns
\* Ok(Some(Brotli)), Ok(Some(Gzip)), Ok(Some(Deflate)) or Ok(Some(Identity))
\* respectively: never an error, never Ok(None).
C1_RecognizedLiterals ==
    (Resolved /\ HasSelected) =>
        /\ SelectedValue = Str_br => IsOk(encoding, Some("Brotli"))
        /\ SelectedValue = Str_gzip => IsOk(encoding, Some("Gzip"))
        /\ SelectedValue = Str_deflate => IsOk(encoding, Some("Deflate"))
        /\ SelectedValue = Str_identity => IsOk(encoding, Some("Identity"))

C1_Witness ==
    /\ Resolved /\ HasSelected
    /\ SelectedIdx = 2
    /\ SelectedValue = Str_deflate
    /\ IsOk(encoding, Some("Deflate"))

\* C2: when the selected content-encoding value v is none of the four
\* literals, content_encoding fails with UnsupportedContentEncoding(v), v
\* unmodified, and uncompress_body returns that error whatever the body,
\* without constructing a decoder.
C2_UnsupportedPropagates ==
    (Resolved /\ HasSelected /\ SelectedValue \notin Literals) =>
        /\ IsErr(encoding, UnsupportedContentEncoding(SelectedValue))
        /\ Returned
        /\ IsErr(result, UnsupportedContentEncoding(SelectedValue))
        /\ ~Dispatched

C2_Witness ==
    /\ Returned /\ HasSelected
    /\ SelectedValue = Val_xx
    /\ body = GzipHello
    /\ IsErr(result, UnsupportedContentEncoding(Val_xx))

\* C3: the header name is matched without regard to case, the value with
\* regard to it: a header named content-encoding in any case is taken as the
\* content-encoding header (the result is not Ok(None)), and a value that
\* equals a literal only up to case is rejected with
\* UnsupportedContentEncoding carrying the value as written.
C3_NameFoldedValueExact ==
    (Resolved /\ HasSelected) =>
        /\ ~IsOk(encoding, None)
        /\ \A lit \in Literals :
              (EqIgnoreAsciiCase(SelectedValue, lit) /\ SelectedValue # lit) =>
                  IsErr(encoding, UnsupportedContentEncoding(SelectedValue))

C3_Witness ==
    /\ Resolved /\ HasSelected
    /\ headers[SelectedIdx].name = Name_Upper
    /\ SelectedValue = Val_BR
    /\ IsErr(encoding, UnsupportedContentEncoding(Val_BR))

\* C4: with several headers named content-encoding, the first decides:
\* content_encoding returns what it returns for that header alone, an
\* unsupported first value is the error of uncompress_body even if a later
\* value is recognized, and a recognized first value selects the routine even
\* if a later value is unsupported or different.
C4_FirstHeaderWins ==
    (Resolved /\ Cardinality(NamedIdx) >= 2) =>
        /\ encoding = content_encoding(<<headers[SelectedIdx]>>)
        /\ SelectedValue \notin Literals =>
              Returned /\ IsErr(result, UnsupportedContentEncoding(SelectedValue))
        /\ SelectedValue = Str_br => IsOk(encoding, Some("Brotli")) /\ decoder.kind \in {"none", "brotli"}
        /\ SelectedValue = Str_gzip => IsOk(encoding, Some("Gzip")) /\ decoder.kind \in {"none", "gzip"}
        /\ SelectedValue = Str_deflate => IsOk(encoding, Some("Deflate")) /\ decoder.kind \in {"none", "zlib"}
        /\ SelectedValue = Str_identity => IsOk(encoding, Some("Identity")) /\ ~Dispatched

C4_Witness ==
    /\ Returned
    /\ Len(headers) = 2
    /\ NamedIdx = {1, 2}
    /\ headers[1].value = Val_xx
    /\ headers[2].value = Str_br
    /\ IsErr(result, UnsupportedContentEncoding(Val_xx))

\* C5: with no header named content-encoding (in any case), or with the
\* selected value "identity", uncompress_body returns Ok of the body, byte
\* for byte, for every body; it constructs no decoder and does not fail.
C5_Passthrough ==
    (Resolved /\ (~HasSelected \/ SelectedValue = Str_identity)) =>
        /\ Returned
        /\ IsOk(result, body)
        /\ ~Dispatched

C5_Witness ==
    /\ Returned
    /\ Len(headers) = 1
    /\ ~HasSelected
    /\ body = BadByte
    /\ IsOk(result, BadByte)

\* the decoder and the error tag that belong to an encoding
KindOf(e) ==
    CASE e = "Gzip" -> "gzip" [] e = "Deflate" -> "zlib" [] e = "Brotli" -> "brotli"
TagOf(e) ==
    CASE e = "Gzip" -> Str_gzip [] e = "Deflate" -> Str_zlib [] e = "Brotli" -> Str_brotli

Compressed == {Ok(Some("Gzip")), Ok(Some("Deflate")), Ok(Some("Brotli"))}
EncodingName == encoding.val[1]

\* what the decoder's own reader yields: the whole payload when it is read
\* to its end, and its first read alone into a buffer of BrotliBufSize bytes
WholeStream(st) ==
    IF st.ctor /\ st.end = "eof" THEN Ok(PayloadBytes(st.payload)) ELSE Err("io")
FirstRead(st) ==
    IF st.cuts = <<>>
    THEN (IF st.end = "eof" THEN Ok(<<>>) ELSE Err("io"))
    ELSE Ok(SubSeq(PayloadBytes(st.payload), 1, Min(BrotliBufSize, st.cuts[1])))

\* the constructor or a read the routine made has returned Err
CodecFailed ==
    /\ Dispatched
    /\ \/ ~Stream.ctor
       \/ /\ Stream.end = "err"
          /\ decoder.pos = Len(Data)
          /\ decoder.kind = "brotli" => decoder.pos = 0

\* C6: a recognized compressed encoding is handed to its own codec and to no
\* other, on the whole body: Gzip to the gzip decoder, Deflate to the zlib
\* decoder, Brotli to the brotli decoder; the result of uncompress_body is
\* what that routine makes of that decoder (gzip, zlib: the stream read to
\* its end; brotli: its first read).
C6_DispatchToOwnCodec ==
    (Resolved /\ encoding \in Compressed) =>
        /\ pc \in {"uncompress_" \o KindOf(EncodingName),
                   KindOf(EncodingName) \o "_read",
                   KindOf(EncodingName) \o "_read_to_end", "done"}
        /\ Dispatched => decoder.kind = KindOf(EncodingName)
        /\ Returned =>
              /\ Dispatched
              /\ LET expected == IF decoder.kind = "brotli"
                                 THEN FirstRead(Stream) ELSE WholeStream(Stream)
                 IN  /\ result.tag = expected.tag
                     /\ expected.tag = "Ok" => result.val = expected.val

C6_Witness ==
    /\ Returned
    /\ IsOk(encoding, Some("Deflate"))
    /\ body = ZlibHello
    /\ decoder.kind = "zlib"
    /\ IsOk(result, HelloWorld)

\* C7: when the constructor or a read of the dispatched codec fails,
\* uncompress_body returns CouldNotUncompressResponse(tag), tag "brotli" for
\* Brotli, "gzip" for Gzip, "zlib" for Deflate; a dispatched call returns no
\* other error.
C7_CodecFailureTag ==
    (Returned /\ Dispatched) =>
        /\ CodecFailed => IsErr(result, CouldNotUncompressResponse(TagOf(EncodingName)))
        /\ result.tag = "Err" =>
              /\ CodecFailed
              /\ result.err = CouldNotUncompressResponse(TagOf(EncodingName))
              /\ result.err.msg \in {Str_brotli, Str_gzip, Str_zlib}

C7_Witness ==
    /\ Returned
    /\ IsOk(encoding, Some("Deflate"))
    /\ Stream.ctor
    /\ decoder.pos > 0
    /\ IsErr(result, CouldNotUncompressResponse(Str_zlib))

\* C8: for Brotli, Gzip and Deflate, a successful result of uncompress_body
\* is the complete decompressed payload of the body, never a proper prefix
\* of it (stated for the bodies that have one: streams that reach their end).
C8_AllOrNothing ==
    (Returned /\ Dispatched /\ Stream.end = "eof" /\ result.tag = "Ok") =>
        result.val = Data

\* C9: uncompress_brotli makes one read into a buffer of 4096 bytes: a
\* successful result has at most 4096 bytes and is the prefix of the
\* decompressed stream that the first read delivers, and a stream that
\* decompresses to more than 4096 bytes yields a truncated success.
C9_BrotliSingleRead ==
    (Returned /\ decoder.kind = "brotli") =>
        /\ result.tag = "Ok" =>
              /\ Len(result.val) <= 4096
              /\ IsPrefix(result.val, Data)
              /\ decoder.pos = Len(result.val)
              /\ Len(result.val) = (IF Stream.cuts = <<>> THEN 0 ELSE Min(4096, Stream.cuts[1]))
        /\ Len(Data) > 4096 =>
              /\ result.tag = "Ok"
              /\ Len(result.val) < Len(Data)

C9_Witness ==
    /\ Returned
    /\ decoder.kind = "brotli"
    /\ Stream.end = "eof"
    /\ Stream.cuts = <<Len(Data)>>
    /\ Len(Data) > 4096
    /\ result.tag = "Ok"
    /\ Len(result.val) = 4096

\* C10: uncompress_gzip and uncompress_zlib read to the end of the stream: a
\* successful result is the entire payload, of any size, and a read error
\* before the end makes the call CouldNotUncompressResponse, the bytes read
\* so far dropped.
C10_LibflateReadToEnd ==
    (Returned /\ decoder.kind \in {"gzip", "zlib"}) =>
        /\ result.tag = "Ok" => Stream.end = "eof" /\ result.val = Data
        /\ (Stream.ctor /\ Stream.end = "eof") => IsOk(result, Data)
        /\ (Stream.ctor /\ Stream.end = "err") =>
              /\ decoder.pos = Len(Data)
              /\ IsErr(result, CouldNotUncompressResponse(TagOf(EncodingName)))
              /\ buf = <<>>

C10_Witness ==
    /\ Returned
    /\ decoder.kind = "gzip"
    /\ Len(Stream.cuts) = 2
    /\ IsOk(result, Data)
    /\ Len(result.val) > 4096

=============================================================================
